---- MODULE Spec2Model ----
(***************************************************************************)
(* Model of bulk_create.py: the __main__ script that validates the         *)
(* arguments, builds OBOptions, builds the resource descriptors, submits   *)
(* one bulkInsert per requested role and polls each operation to DONE.     *)
(* Python dicts are records/functions over string keys; a key that the     *)
(* code adds conditionally is a key that is or is not in the DOMAIN.       *)
(* The field "id" of a descriptor stands for the identity of the Python    *)
(* object (two descriptors with the same id are the same object).          *)
(***************************************************************************)
EXTENDS Integers, Sequences, FiniteSets, TLC

\* ---------------------------------------------------------------- bounds
MaxCount == 2       \* largest --num-servers / --num-clients explored
MaxSsd == 2         \* largest --num-ssd-per-server explored
MaxPending == 2     \* most non-DONE answers the provider gives per operation

\* ------------------------------------------------------- Python values
NoneStr == "None"                 \* Python None in a string-typed slot
None == [None |-> TRUE]           \* Python None in an object-typed slot
Truthy(x) == x \notin {NoneStr, ""}

SERVER == "SERVER"
CLIENT == "CLIENT"
OBInstType == {SERVER, CLIENT}

\* ----------------------------------------------------- parsed arguments
NicChoices == {NoneStr, "", "GVNIC"}

Args ==
    [project : {"proj"}, region : {"reg"}, zone : {"zone"}, image : {"img"},
     scopes : {<<"compute-rw">>},
     subnet : {NoneStr, "sn"},
     policy : {NoneStr, "pol"},
     nic_type : NicChoices,
     enable_tier1_networking : BOOLEAN,
     num_servers : -1..MaxCount,
     num_clients : -1..MaxCount,
     server_type : {"n2-std"}, client_type : {"c2-std"},
     server_prefix : {"srv"}, client_prefix : {"cli"},
     num_ssd_per_server : -1..MaxSsd]

\* ------------------------------------------------------------ OBOptions
WarningMsg == "Warning: Setting nic-type to \"GVNIC\" for Tier 1 networking."

OverrideNicExplicitOnly(a) ==
    a.enable_tier1_networking /\ a.nic_type \notin {NoneStr, "GVNIC"}

OverrideNic(a) == a.enable_tier1_networking /\ a.nic_type # "GVNIC"

OBOptions(a, id) ==
    [project |-> a.project,
     region |-> a.region,
     zone |-> a.zone,
     image |-> "global/images/" \o a.image,
     scopes |-> [id |-> id,
                 items |-> [i \in 1..Len(a.scopes) |->
                              "https://www.googleapis.com/auth/" \o a.scopes[i]]],
     subnet |-> IF Truthy(a.subnet)
                THEN "regions/" \o a.region \o "/subnetworks/" \o a.subnet
                ELSE NoneStr,
     policy |-> a.policy,
     nic_type |-> IF OverrideNic(a) THEN "GVNIC" ELSE a.nic_type,
     enable_tier1_networking |-> a.enable_tier1_networking,
     server |-> [count |-> a.num_servers, type |-> a.server_type,
                 prefix |-> a.server_prefix,
                 num_ssd_per |-> a.num_ssd_per_server],
     client |-> [count |-> a.num_clients, type |-> a.client_type,
                 prefix |-> a.client_prefix]]

\* --------------------------------------------------- descriptor builders
setup_network_interface(opts, id) ==
    LET base == [id |-> id,
                 accessConfigs |-> <<[type |-> "ONE_TO_ONE_NAT",
                                      name |-> "External NAT",
                                      networkTier |-> "PREMIUM"]>>]
        withSub == IF Truthy(opts.subnet)
                   THEN ("subnetwork" :> opts.subnet) @@ base
                   ELSE base
    IN  IF Truthy(opts.nic_type)
        THEN ("nicType" :> opts.nic_type) @@ withSub
        ELSE withSub

boot_disk(opts) ==
    LET base == [type |-> "PERSISTENT",
                 boot |-> "true",
                 initializeParams |-> [sourceImage |-> opts.image],
                 autoDelete |-> "true"]
    IN  IF opts.nic_type = "GVNIC"
        THEN ("guestOsFeatures" :> <<[type |-> "GVNIC"]>>) @@ base
        ELSE base

local_disk ==
    [type |-> "SCRATCH",
     initializeParams |-> [diskType |-> "local-ssd"],
     autoDelete |-> "true",
     interface |-> "NVME"]

setup_disks_any_role(opts, is_server, id) ==
    [id |-> id,
     items |-> <<boot_disk(opts)>> \o
               (IF opts.server.num_ssd_per > 0
                THEN [i \in 1..opts.server.num_ssd_per |-> local_disk]
                ELSE <<>>)]

setup_disks(opts, is_server, id) ==
    [id |-> id,
     items |-> <<boot_disk(opts)>> \o
               (IF is_server /\ opts.server.num_ssd_per > 0
                THEN [i \in 1..opts.server.num_ssd_per |-> local_disk]
                ELSE <<>>)]

setup_instance_properties_copy(opts, is_server, net_int, disks, id) ==
    LET base == [id |-> id,
                 networkInterfaces |-> <<[net_int EXCEPT !.id = 0 - id]>>,
                 disks |-> disks,
                 serviceAccounts |-> <<[scopes |-> opts.scopes]>>,
                 machineType |-> IF is_server THEN opts.server.type
                                 ELSE opts.client.type]
        withPol == IF Truthy(opts.policy)
                   THEN ("resourcePolicies" :> <<opts.policy>>) @@
                        ("scheduling" :> [onHostMaintenance |-> "TERMINATE",
                                          automaticRestart |-> "false"]) @@ base
                   ELSE base
    IN  IF opts.enable_tier1_networking
        THEN ("networkPerformanceConfig" :>
                 [totalEgressBandwidthTier |-> "TIER_1"]) @@ withPol
        ELSE withPol

setup_instance_properties(opts, is_server, net_int, disks, id) ==
    LET base == [id |-> id,
                 networkInterfaces |-> <<net_int>>,
                 disks |-> disks,
                 serviceAccounts |-> <<[scopes |-> opts.scopes]>>,
                 machineType |-> IF is_server THEN opts.server.type
                                 ELSE opts.client.type]
        withPol == IF Truthy(opts.policy)
                   THEN ("resourcePolicies" :> <<opts.policy>>) @@
                        ("scheduling" :> [onHostMaintenance |-> "TERMINATE",
                                          automaticRestart |-> "false"]) @@ base
                   ELSE base
    IN  IF opts.enable_tier1_networking
        THEN ("networkPerformanceConfig" :>
                 [totalEgressBandwidthTier |-> "TIER_1"]) @@ withPol
        ELSE withPol

\* the request body of create_instances
RequestBody(opts, inst_type, net_int, id) ==
    LET is_server == (inst_type = SERVER)
        count == IF is_server THEN opts.server.count ELSE opts.client.count
        name_pattern == IF is_server THEN opts.server.prefix \o "##"
                        ELSE opts.client.prefix \o "##"
        disks == setup_disks(opts, is_server, id)
    IN  [count |-> count,
         namePattern |-> name_pattern,
         instanceProperties |->
             setup_instance_properties(opts, is_server, net_int, disks, id + 1)]

\* ------------------------------------------------------ provider answers
\* content of an HttpError raised by bulkInsert(...).execute()
HttpErrorContents ==
    {[error |-> [message |-> "quota exceeded"]],
     [error |-> [message |-> "permission denied"]],
     [detail |-> "bad gateway"]}

\* error payloads of a terminal operation
ErrorPayloads == {[errors |-> <<"QUOTA_EXCEEDED">>], [errors |-> <<>>]}

PendingStatuses == {"PENDING", "RUNNING"}

DoneResults ==
    {[status |-> "DONE"]} \cup {[status |-> "DONE", error |-> e] : e \in ErrorPayloads}

PendingResults == {[status |-> s] : s \in PendingStatuses}

\* ------------------------------------------------------ wait_for_operation
LoopExitsAny(result) == TRUE

LoopExits(result) == result.status = "DONE"

OperationFailsNonEmpty(result) ==
    "error" \in DOMAIN result /\ result.error.errors # <<>>

OperationFails(result) == "error" \in DOMAIN result

RaisedException(result) == [exc |-> "Exception", arg |-> result.error]

\* ------------------------------------------------------------ control flow
NoInstancesNegative(a) == a.num_servers + a.num_clients < 0

NoInstances(a) == a.num_servers + a.num_clients < 1

RoleCount(a, t) == IF t = SERVER THEN a.num_servers ELSE a.num_clients

RoleRequested(a, t) == RoleCount(a, t) > 0

waitPc(t) == "wait_" \o t

afterPc(t) == IF t = SERVER THEN CLIENT ELSE "exit0"

AfterInsertNoWait(t) == afterPc(t)

AfterInsert(t) == waitPc(t)

AfterRejectRetry(t) == t

AfterRejectContinue(t) == afterPc(t)

AfterReject(t) == "exit1"

\* ------------------------------------------------------------------ state
VARIABLES
    args,        \* the parsed command line (immutable)
    pc,          \* position of the script
    stdout,      \* lines printed so far
    verifyCalls, \* number of verify_inputs runs (validator calls)
    ob_opts,     \* the OBOptions object, None before construction
    compute,     \* TRUE once the provider client is built
    net_int,     \* the object built by setup_network_interface, or None
    nextId,      \* next fresh object identity
    body,        \* per role: request body passed to bulkInsert, or None
    inserts,     \* per role: number of bulkInsert calls issued
    http_error,  \* per role: content of the HttpError bulkInsert raised, or None
    operation,   \* per role: operation handle bulkInsert returned, or None
    poller,      \* per role: state of wait_for_operation
    queries,     \* per role: number of zoneOperations().wait calls issued
    nonDone,     \* per role: number of answers with status != DONE
    lastResult,  \* per role: last answer of zoneOperations().wait, or None
    raised       \* the uncaught exception that ended the script, or None

vars == <<args, pc, stdout, verifyCalls, ob_opts, compute, net_int, nextId,
          body, inserts, http_error, operation, poller, queries, nonDone,
          lastResult, raised>>

provisioning == <<body, inserts, http_error, operation, poller, queries,
                  nonDone, lastResult>>

ExitCode == IF pc = "exit0" THEN 0 ELSE IF pc \in {"exit1", "raised"} THEN 1 ELSE -1

Init ==
    /\ args \in Args
    /\ pc = "main"
    /\ stdout = <<>>
    /\ verifyCalls = 0
    /\ ob_opts = None
    /\ compute = FALSE
    /\ net_int = None
    /\ nextId = 1
    /\ body = [t \in OBInstType |-> None]
    /\ inserts = [t \in OBInstType |-> 0]
    /\ http_error = [t \in OBInstType |-> None]
    /\ operation = [t \in OBInstType |-> None]
    /\ poller = [t \in OBInstType |-> "idle"]
    /\ queries = [t \in OBInstType |-> 0]
    /\ nonDone = [t \in OBInstType |-> 0]
    /\ lastResult = [t \in OBInstType |-> None]
    /\ raised = None

\* if args.num_servers + args.num_clients < 1: print; sys.exit(1)
CheckCounts ==
    /\ pc = "main"
    /\ IF NoInstances(args)
       THEN /\ stdout' = Append(stdout, "Error: Must specify at least one server or client.")
            /\ pc' = "exit1"
       ELSE /\ pc' = "verify"
            /\ UNCHANGED stdout
    /\ UNCHANGED <<args, verifyCalls, ob_opts, compute, net_int, nextId,
                   provisioning, raised>>

\* if not verify_inputs(args): sys.exit(1)   (the validator's answer is external)
VerifyInputs ==
    /\ pc = "verify"
    /\ verifyCalls' = verifyCalls + 1
    /\ \E ok \in BOOLEAN : pc' = IF ok THEN "opts" ELSE "exit1"
    /\ UNCHANGED <<args, stdout, ob_opts, compute, net_int, nextId,
                   provisioning, raised>>

\* ob_opts = OBOptions(args)
Normalize ==
    /\ pc = "opts"
    /\ ob_opts' = OBOptions(args, nextId)
    /\ nextId' = nextId + 1
    /\ stdout' = IF OverrideNic(args) THEN Append(stdout, WarningMsg) ELSE stdout
    /\ pc' = "compute"
    /\ UNCHANGED <<args, verifyCalls, compute, net_int, provisioning, raised>>

\* compute = googleapiclient.discovery.build(...), or DefaultCredentialsError
BuildCompute ==
    /\ pc = "compute"
    /\ \/ /\ compute' = TRUE
          /\ pc' = "net_int"
          /\ UNCHANGED stdout
       \/ /\ stdout' = Append(stdout, "No Google application credentials.")
          /\ pc' = "exit1"
          /\ UNCHANGED compute
    /\ UNCHANGED <<args, verifyCalls, ob_opts, net_int, nextId, provisioning, raised>>

\* net_int = setup_network_interface(ob_opts)
SetupNetInt ==
    /\ pc = "net_int"
    /\ net_int' = setup_network_interface(ob_opts, nextId)
    /\ nextId' = nextId + 1
    /\ pc' = SERVER
    /\ UNCHANGED <<args, stdout, verifyCalls, ob_opts, compute, provisioning, raised>>

\* if args.num_<role> > 0 is false: the role is passed over
SkipRole(t) ==
    /\ pc = t
    /\ ~RoleRequested(args, t)
    /\ pc' = afterPc(t)
    /\ UNCHANGED <<args, stdout, verifyCalls, ob_opts, compute, net_int, nextId,
                   provisioning, raised>>

\* create_instances up to and including the bulkInsert call and its except clause
create_instances(t) ==
    /\ pc = t
    /\ RoleRequested(args, t)
    /\ body' = [body EXCEPT ![t] = RequestBody(ob_opts, t, net_int, nextId)]
    /\ nextId' = nextId + 2
    /\ inserts' = [inserts EXCEPT ![t] = @ + 1]
    /\ \/ \* the provider accepts: wait_for_operation is entered
          /\ operation' = [operation EXCEPT ![t] =
                              [operationType |-> "bulkInsert", name |-> "op-" \o t]]
          /\ poller' = [poller EXCEPT ![t] = "PENDING"]
          /\ stdout' = Append(stdout, "Waiting for bulkInsert operation to finish...")
          /\ pc' = AfterInsert(t)
          /\ UNCHANGED <<http_error, raised>>
       \/ \* the provider rejects synchronously: HttpError
          \E c \in HttpErrorContents :
             /\ http_error' = [http_error EXCEPT ![t] = c]
             /\ IF "error" \in DOMAIN c
                THEN /\ stdout' = Append(stdout, "Error: " \o c.error.message)
                     /\ pc' = AfterReject(t)
                     /\ UNCHANGED raised
                ELSE /\ raised' = [exc |-> "AttributeError", arg |-> c]
                     /\ pc' = "raised"
                     /\ UNCHANGED stdout
             /\ UNCHANGED <<operation, poller>>
    /\ UNCHANGED <<args, verifyCalls, ob_opts, compute, net_int, queries,
                   nonDone, lastResult>>

\* one iteration of the while True loop of wait_for_operation
WaitQuery(t) ==
    /\ pc = waitPc(t)
    /\ queries' = [queries EXCEPT ![t] = @ + 1]
    /\ \/ \* the query is answered
          \E result \in DoneResults \cup
                        (IF nonDone[t] < MaxPending THEN PendingResults ELSE {}) :
             /\ lastResult' = [lastResult EXCEPT ![t] = result]
             /\ nonDone' = [nonDone EXCEPT ![t] =
                               IF result.status = "DONE" THEN @ ELSE @ + 1]
             /\ IF LoopExits(result)
                THEN /\ stdout' = Append(stdout, "done.")
                     /\ IF OperationFails(result)
                        THEN /\ raised' = RaisedException(result)
                             /\ poller' = [poller EXCEPT ![t] = "failed"]
                             /\ pc' = "raised"
                        ELSE /\ poller' = [poller EXCEPT ![t] = "returned"]
                             /\ pc' = afterPc(t)
                             /\ UNCHANGED raised
                ELSE UNCHANGED <<stdout, raised, poller, pc>>
       \/ \* the query itself raises (transport error), nothing catches it
          /\ raised' = [exc |-> "HttpError", arg |-> [detail |-> "wait failed"]]
          /\ poller' = [poller EXCEPT ![t] = "aborted"]
          /\ pc' = "raised"
          /\ UNCHANGED <<stdout, nonDone, lastResult>>
    /\ UNCHANGED <<args, verifyCalls, ob_opts, compute, net_int, nextId,
                   body, inserts, http_error, operation>>

Next ==
    \/ CheckCounts
    \/ VerifyInputs
    \/ Normalize
    \/ BuildCompute
    \/ SetupNetInt
    \/ \E t \in OBInstType : SkipRole(t)
    \/ \E t \in OBInstType : create_instances(t)
    \/ \E t \in OBInstType : WaitQuery(t)

Spec == Init /\ [][Next]_vars

\* the script is the only thread and keeps running until it exits
LiveSpec == Init /\ [][Next]_vars /\ WF_vars(Next)

TypeOK ==
    /\ pc \in {"main", "verify", "opts", "compute", "net_int", SERVER, CLIENT,
               waitPc(SERVER), waitPc(CLIENT), "exit0", "exit1", "raised"}
    /\ \A t \in OBInstType :
          poller[t] \in {"idle", "PENDING", "returned", "failed", "aborted"}

\* ----------------------------------------------------------------- claims
ObservedDone(t) ==
    "status" \in DOMAIN lastResult[t] /\ lastResult[t].status = "DONE"

Warned == \E i \in 1..Len(stdout) : stdout[i] = WarningMsg

BothBuilt == body[SERVER] # None /\ body[CLIENT] # None

DisksOf(t) == body[t].instanceProperties.disks.items

IsBootDisk(d) == "boot" \in DOMAIN d /\ d.boot = "true" /\ d.type = "PERSISTENT"

IsScratchDisk(d) == "boot" \notin DOMAIN d /\ d.type = "SCRATCH"

\* C1: wait_for_operation returns normally only after an answer with status
\* DONE; an answer with any other status leaves it pending at the wait call.
C1_ReturnedOnlyOnDone ==
    \A t \in OBInstType : poller[t] = "returned" => ObservedDone(t)

C1_NonDoneStaysPending ==
    \A t \in OBInstType :
       nonDone'[t] = nonDone[t] + 1 =>
          /\ poller'[t] = "PENDING"
          /\ pc' = waitPc(t)
          /\ raised' = raised

C1_NoPrematureReturn ==
    []C1_ReturnedOnlyOnDone /\ [][C1_NonDoneStaysPending]_vars

C1_Witness ==
    poller[SERVER] = "returned" /\ nonDone[SERVER] >= 1 /\ queries[SERVER] >= 2

\* C2: once DONE is observed, wait_for_operation fails exactly when the
\* terminal answer has an error payload, and the exception carries that
\* payload unchanged; without a payload it returns.
C2_ErrorRoundTrip ==
    \A t \in OBInstType :
       poller[t] \in {"returned", "failed"} =>
          /\ poller[t] = "failed" <=> "error" \in DOMAIN lastResult[t]
          /\ poller[t] = "failed" =>
                /\ pc = "raised"
                /\ raised = [exc |-> "Exception", arg |-> lastResult[t].error]
          /\ poller[t] = "returned" => pc # waitPc(t)

C2_Witness ==
    /\ poller[SERVER] = "returned"
    /\ poller[CLIENT] = "failed"
    /\ raised.arg = [errors |-> <<>>]

\* C3: the client bulkInsert is issued only after the server operation was
\* observed DONE; the client is never submitted while the server is pending.
C3_Sequential ==
    /\ (inserts[SERVER] > 0 /\ inserts[CLIENT] > 0) => ObservedDone(SERVER)
    /\ poller[SERVER] = "PENDING" => (inserts[CLIENT] = 0 /\ body[CLIENT] = None)

C3_Witness ==
    /\ inserts[SERVER] = 1
    /\ inserts[CLIENT] = 1
    /\ nonDone[SERVER] >= 1
    /\ poller[CLIENT] = "PENDING"

\* C4: a structured synchronous rejection of the server bulkInsert ends the
\* script with the provider's message and exit code 1, with no wait query for
\* the server and no client request.
C4_ServerRejectionHalts ==
    "error" \in DOMAIN http_error[SERVER] =>
       /\ pc = "exit1"
       /\ ExitCode = 1
       /\ stdout[Len(stdout)] = "Error: " \o http_error[SERVER].error.message
       /\ queries[SERVER] = 0
       /\ poller[SERVER] = "idle"
       /\ inserts[CLIENT] = 0
       /\ body[CLIENT] = None

C4_Witness ==
    /\ "error" \in DOMAIN http_error[SERVER]
    /\ http_error[SERVER].error.message = "quota exceeded"
    /\ args.num_clients > 0
    /\ pc = "exit1"

\* C5: after n non-DONE answers and one DONE answer exactly n+1 queries were
\* issued and the poller has terminated; while no DONE was answered it keeps
\* polling; if the provider eventually answers DONE the poller terminates.
C5_QueryCount ==
    \A t \in OBInstType :
       /\ poller[t] \in {"returned", "failed"} =>
             (ObservedDone(t) /\ queries[t] = nonDone[t] + 1)
       /\ poller[t] = "PENDING" =>
             (pc = waitPc(t) /\ queries[t] = nonDone[t])

C5_Terminates ==
    \A t \in OBInstType : (poller[t] = "PENDING") ~> (poller[t] # "PENDING")

C5_UnboundedPoll == []C5_QueryCount /\ C5_Terminates

C5_Witness ==
    /\ poller[SERVER] \in {"returned", "failed"}
    /\ nonDone[SERVER] = 2
    /\ queries[SERVER] = 3

\* C6: a role is submitted at most once; a role with count 0 is never
\* submitted, a requested role whose turn was reached is submitted exactly
\* once, and nothing is re-issued after a rejection or a terminal error.
C6_TurnDone(t) ==
    \/ pc = "exit0"
    \/ pc \in {waitPc(t), afterPc(t)}
    \/ (t = SERVER /\ pc = waitPc(CLIENT))

C6_AtMostOnce ==
    \A t \in OBInstType :
       /\ inserts[t] <= 1
       /\ RoleCount(args, t) <= 0 => inserts[t] = 0
       /\ (RoleCount(args, t) > 0 /\ C6_TurnDone(t)) => inserts[t] = 1

C6_NoResubmission ==
    (\E t \in OBInstType : http_error[t] # None \/ poller[t] = "failed")
       => inserts' = inserts

C6_SingleSubmission == []C6_AtMostOnce /\ [][C6_NoResubmission]_vars

C6_Witness ==
    /\ pc = "exit0"
    /\ inserts[SERVER] = 1
    /\ inserts[CLIENT] = 1

\* C7: with server count 0 and client count 0 the script fails with the
\* configuration error before any validator call, client construction,
\* bulkInsert or wait query, and OBOptions is never constructed.
C7_ZeroInstancesRejected ==
    (args.num_servers = 0 /\ args.num_clients = 0) =>
       /\ pc \in {"main", "exit1"}
       /\ verifyCalls = 0
       /\ ob_opts = None
       /\ compute = FALSE
       /\ net_int = None
       /\ \A t \in OBInstType :
             inserts[t] = 0 /\ queries[t] = 0 /\ body[t] = None
       /\ pc = "exit1" =>
             stdout = <<"Error: Must specify at least one server or client.">>

C7_Witness ==
    /\ args.num_servers = 0
    /\ args.num_clients = 0
    /\ pc = "exit1"
    /\ ExitCode = 1

\* C8: the disk list of a request starts with the only boot disk and
\* continues with scratch disks only; their number is the server's local-SSD
\* count (a non-negative integer) for the server role and 0 for the client.
C8_DiskList ==
    \A t \in OBInstType :
       body[t] # None =>
          LET ds == DisksOf(t) IN
             /\ Len(ds) >= 1
             /\ IsBootDisk(ds[1])
             /\ \A i \in 2..Len(ds) : IsScratchDisk(ds[i]) /\ ~IsBootDisk(ds[i])
             /\ (t = SERVER /\ args.num_ssd_per_server >= 0) =>
                   Len(ds) - 1 = args.num_ssd_per_server
             /\ t = CLIENT => Len(ds) = 1

C8_Witness ==
    /\ BothBuilt
    /\ args.num_ssd_per_server = 2
    /\ Len(DisksOf(SERVER)) = 3
    /\ Len(DisksOf(CLIENT)) = 1

\* C9 as stated: the warning is printed only for tier-1 networking with an
\* explicit NIC type other than GVNIC; NIC type unset with tier-1 networking
\* gives nic_type GVNIC and no warning.
C9_Original ==
    /\ Warned => (args.enable_tier1_networking
                    /\ args.nic_type \notin {NoneStr, "GVNIC"})
    /\ (ob_opts # None /\ args.enable_tier1_networking /\ args.nic_type = NoneStr)
          => (ob_opts.nic_type = "GVNIC" /\ ~Warned)

\* C9 amended: the warning is printed exactly when tier-1 networking is
\* enabled and the supplied NIC type is not GVNIC, unset included; NIC type
\* unset with tier-1 networking gives nic_type GVNIC and the warning.
C9_WarningOnAnyOverride ==
    /\ ob_opts = None => ~Warned
    /\ ob_opts # None =>
          /\ Warned <=> (args.enable_tier1_networking /\ args.nic_type # "GVNIC")
          /\ (args.enable_tier1_networking /\ args.nic_type = NoneStr)
                => (ob_opts.nic_type = "GVNIC" /\ Warned)
          /\ ~args.enable_tier1_networking => ob_opts.nic_type = args.nic_type

C9_Witness ==
    /\ ob_opts # None
    /\ args.enable_tier1_networking
    /\ args.nic_type = NoneStr
    /\ Warned

\* C10 as stated: every descriptor in the server request is a different
\* object from its counterpart in the client request.
C10_Original ==
    BothBuilt =>
       LET s == body[SERVER].instanceProperties
           c == body[CLIENT].instanceProperties
       IN  /\ s.networkInterfaces[1].id # c.networkInterfaces[1].id
           /\ s.serviceAccounts[1].scopes.id # c.serviceAccounts[1].scopes.id
           /\ s.disks.id # c.disks.id
           /\ s.id # c.id

\* C10 amended: the disk list and the instance properties are built anew for
\* each role, while the network-interface descriptor (built once by the
\* script) and the scopes list of the options are the same objects in both
\* requests.
C10_SharedNetInt ==
    /\ \A t \in OBInstType :
          body[t] # None =>
             /\ body[t].instanceProperties.networkInterfaces = <<net_int>>
             /\ body[t].instanceProperties.serviceAccounts[1].scopes = ob_opts.scopes
    /\ BothBuilt =>
          LET s == body[SERVER].instanceProperties
              c == body[CLIENT].instanceProperties
          IN  /\ s.networkInterfaces[1].id = c.networkInterfaces[1].id
              /\ s.disks.id # c.disks.id
              /\ s.id # c.id
              /\ Cardinality({s.id, c.id, s.disks.id, c.disks.id,
                              net_int.id, ob_opts.scopes.id}) = 6

C10_Witness ==
    /\ BothBuilt
    /\ body[SERVER].instanceProperties.networkInterfaces[1].id = net_int.id
    /\ body[CLIENT].instanceProperties.networkInterfaces[1].id = net_int.id

====
